---- MODULE Spec2Model ----
(***************************************************************************)
(* The end-of-block orchestrator of BinanceChain (EndBlocker), the         *)
(* publication pipeline it feeds and the account-balance aggregation.      *)
(*                                                                         *)
(* Four specifications share the definitions below:                        *)
(*   Spec     - blocks, order changes, matching, the hand-off to the       *)
(*              publisher worker and the drain of its acknowledgements;    *)
(*   SpecFee  - one normal block with more orders, for the fee-collection  *)
(*              channel;                                                   *)
(*   SpecJoin - one normal block whose matching output (LastTrades and     *)
(*              Transfers) is drawn from a wider input space;              *)
(*   SpecAcc  - getAllChangedAccountBalances over account stores.          *)
(***************************************************************************)
EXTENDS Integers, Sequences, FiniteSets, TLC

\* ------------------------------------------------------------------ bounds

\* Blocks processed in one behaviour.
MaxHeight == 3
\* Orders submitted in one behaviour (order ids are never reused).
MaxOrders == 2
\* The channel capacities of package pub, set outside the files modelled
\* here and an option of the configuration: small values stand for them.
\* ToPublishCh is tried unbuffered (0) and with PublicationChannelSize,
\* ToRemoveOrderIdCh with 1 and with ToRemoveOrderIdChannelSize.
PublicationChannelSize == 1
ToRemoveOrderIdChannelSize == 2
FeeCollectionChannelSize == 2
\* SpecFee: orders submitted in the one block.
MaxFeeOrders == 3
\* SpecJoin: trades over all symbols, and Transfers, of the one block.
MaxJoinTrades == 2
MaxJoinTransfers == 2
\* SpecAcc: coin entries in the whole account store.
MaxCoins == 3

\* ------------------------------------------------------- program constants

iocExpireFee == 500

\* ------------------------------------------------------------------- state

VARIABLES
    height,            \* deliver-state header height
    blockTime,         \* deliver-state header time (Unix seconds)
    lastBlockTime,     \* check-state header time: the preceding block's time
    pc,                \* position of the state-machine thread
    publicationConfig, \* app.publicationConfig
    IsLive,            \* app.publisher.IsLive
    chanSize,          \* capacities of ToPublishCh and ToRemoveOrderIdCh
    book,              \* resting orders of the matching engines: id -> order
    nextOrder,         \* orders submitted so far
    OrderChanges,      \* DexKeeper.OrderChanges: the block's change list
    OrderChangesMap,   \* DexKeeper.OrderChangesMap: id -> change record
    involved,          \* ctx.Value(InvolvedAddressKey): tx-related addresses
    accountStore,      \* AccountMapper: address -> account
    calls,             \* collaborators EndBlocker has called in this block
    matchOut,          \* what MatchAndAllocateAll produces in this block
    emitted,           \* Transfers already handed to the fee collector
    transCh,           \* the per-block fee-collection channel
    tradesToPublish,   \* EndBlocker's tradesToPublish
    replicaTrades,     \* tradesToPublish of a second replica on the same input
    icoDone,           \* the ICO end-block task: "none", "running", "done"
    outbox,            \* the BlockInfoToPublish EndBlocker is about to send
    ToPublishCh,       \* publisher.ToPublishCh (buffer content)
    ToRemoveOrderIdCh, \* publisher.ToRemoveOrderIdCh (buffer content)
    worker,            \* the publisher worker: position, block held, ids to report
    sentLog,           \* heights handed to ToPublishCh, in order
    recvLog,           \* heights the worker received, in order
    reported,          \* ids the worker reported for the block in hand
    bookLevels,        \* the keeper's price levels: at the last snapshot and now
    accountsToPublish  \* SpecAcc: result of getAllChangedAccountBalances

chainVars == <<height, blockTime, lastBlockTime>>
configVars == <<publicationConfig, IsLive, chanSize>>
keeperVars == <<book, nextOrder, OrderChanges, OrderChangesMap>>
matchVars == <<matchOut, emitted, transCh, tradesToPublish, replicaTrades>>
pipeVars == <<outbox, ToPublishCh, ToRemoveOrderIdCh, worker, sentLog, recvLog, reported>>
accVars == <<involved, accountStore, accountsToPublish>>
bookVars == <<bookLevels>>

vars == <<chainVars, pc, configVars, bookVars, keeperVars, matchVars, pipeVars, accVars,
          calls, icoDone>>

\* ---------------------------------------------------------------- helpers

Range(s) == {s[i] : i \in 1..Len(s)}

\* The map without entries.
EmptyMap == [k \in {} |-> 0]

\* The map m with key k set to v.
Put(m, k, v) == [x \in DOMAIN m \cup {k} |-> IF x = k THEN v ELSE m[x]]

\* delete(m, k): a no-op when k is absent.
Delete(m, k) == [x \in DOMAIN m \ {k} |-> m[x]]

RECURSIVE SeqSum(_)
SeqSum(s) == IF s = <<>> THEN 0 ELSE Head(s) + SeqSum(Tail(s))

\* The sequences over S of length at most n.
SeqsUpTo(S, n) == UNION {[1..k -> S] : k \in 0..n}

\* The orderings (without repetition) of the finite set S.
Perms(S) == {p \in [1..Cardinality(S) -> S] : Range(p) = S}

\* The elements of the sequence s that satisfy Keep, in the order of s.
KeepSeq(s, Keep(_)) == SelectSeq(s, Keep)

\* ------------------------------------------------------------- block kind

\* utils.SameDayInUTC: both Unix times fall on the same UTC calendar day.
SameDayInUTC(first, second) == first \div 86400 = second \div 86400

IsNormalBlockNoHeightCase(last, now, h) == SameDayInUTC(last, now)

\* EndBlocker's block-kind test: a normal block, else a breathe block.
IsNormalBlock(last, now, h) == SameDayInUTC(last, now) \/ h = 1

\* ---------------------------------------------------------- fee collector

\* order.Transfer as EndBlocker reads it: Bid, Sid, IsBuyer(), IsExpired()
\* and Fee.Tokens, a list of [Denom, Amount].
FeeFree(tran) == tran.Tokens = <<>>

\* new(pub.Trade) with Sid and Bid set: every other field has its zero value.
NewTrade(bid, sid) ==
    [Id |-> "", Symbol |-> "", Price |-> 0, Qty |-> 0, Sid |-> sid, Bid |-> bid,
     Sfee |-> 0, SfeeAsset |-> "", Bfee |-> 0, BfeeAsset |-> "", BuyCumQty |-> 0]

\* The grouped-trade record of (bid, sid), allocated on first sight.
\* groupedTrades is a function from <<bid, sid>> to the record its pointer
\* designates.
GroupOf(grouped, tran) ==
    IF <<tran.Bid, tran.Sid>> \in DOMAIN grouped
    THEN grouped
    ELSE [k \in DOMAIN grouped \cup {<<tran.Bid, tran.Sid>>} |->
             IF k \in DOMAIN grouped THEN grouped[k]
             ELSE NewTrade(tran.Bid, tran.Sid)]

\* A collector that takes the other order of an expired Transfer.
ExpiredFeeKeySwapped(tran) == IF tran.IsBuyer THEN tran.Sid ELSE tran.Bid

\* The fee of an expired Transfer goes to the entry of Bid (buyer side) or
\* of Sid (seller side).
ExpiredFeeKey(tran) == IF tran.IsBuyer THEN tran.Bid ELSE tran.Sid

\* A collector in which a fee-free Transfer wipes the fee of its side.
SetTradeFeeWiping(t, tran) ==
    IF FeeFree(tran)
    THEN IF tran.IsBuyer THEN [t EXCEPT !.Bfee = 0, !.BfeeAsset = ""]
         ELSE [t EXCEPT !.Sfee = 0, !.SfeeAsset = ""]
    ELSE IF tran.IsBuyer
         THEN [t EXCEPT !.Bfee = tran.Tokens[1].Amount,
                        !.BfeeAsset = tran.Tokens[1].Denom]
         ELSE [t EXCEPT !.Sfee = tran.Tokens[1].Amount,
                        !.SfeeAsset = tran.Tokens[1].Denom]

\* The fee fields of a regular (fill) Transfer on its grouped trade.
SetTradeFee(t, tran) ==
    IF FeeFree(tran) THEN t
    ELSE IF tran.IsBuyer
         THEN [t EXCEPT !.Bfee = tran.Tokens[1].Amount,
                        !.BfeeAsset = tran.Tokens[1].Denom]
         ELSE [t EXCEPT !.Sfee = tran.Tokens[1].Amount,
                        !.SfeeAsset = tran.Tokens[1].Denom]

\* One iteration of `for tran := range transCh` on st = [grouped, map].
CollectOne(st, tran) ==
    IF tran.IsExpired
    THEN IF FeeFree(tran) THEN st
         ELSE [st EXCEPT !.map[ExpiredFeeKey(tran)].FeeAsset = tran.Tokens[1].Denom,
                         !.map[ExpiredFeeKey(tran)].Fee = tran.Tokens[1].Amount]
    ELSE LET g == GroupOf(st.grouped, tran)
             k == <<tran.Bid, tran.Sid>>
         IN  [st EXCEPT !.grouped = [g EXCEPT ![k] = SetTradeFee(g[k], tran)]]

RECURSIVE CollectAll(_, _)
CollectAll(st, ch) ==
    IF ch = <<>> THEN st ELSE CollectAll(CollectOne(st, Head(ch)), Tail(ch))

\* ------------------------------------------------------------------- join

\* fmt.Sprintf("%d-%d", height, tradeIdx)
TradeId(h, idx) == ToString(h) \o "-" \o ToString(idx)

\* What the join appends for a trade: a copy of the grouped record after its
\* publication fields were filled.
FilledTrade(t, h, idx, symbol, trade) ==
    [t EXCEPT !.Id = TradeId(h, idx), !.Symbol = symbol, !.Price = trade.LastPx,
              !.Qty = trade.LastQty, !.BuyCumQty = trade.BuyCumQty]

\* A join that appends the grouped record as it was before its publication
\* fields were filled.
JoinOneStale(st, h, symbol, trade) ==
    LET k == <<trade.BId, trade.SId>> IN
    IF k \in DOMAIN st.grouped
    THEN [grouped |-> [st.grouped EXCEPT ![k] = FilledTrade(st.grouped[k], h, st.idx, symbol, trade)],
          out |-> Append(st.out, st.grouped[k]),
          idx |-> st.idx + 1]
    ELSE st

\* A join in which a skipped trade takes an index too.
JoinOneCountAll(st, h, symbol, trade) ==
    LET k == <<trade.BId, trade.SId>> IN
    IF k \in DOMAIN st.grouped
    THEN LET t == FilledTrade(st.grouped[k], h, st.idx, symbol, trade)
         IN  [grouped |-> [st.grouped EXCEPT ![k] = t],
              out |-> Append(st.out, t),
              idx |-> st.idx + 1]
    ELSE [st EXCEPT !.idx = st.idx + 1]

\* A join that gives up the trades collected so far when a trade has no
\* grouped record.
JoinOneGiveUp(st, h, symbol, trade) ==
    LET k == <<trade.BId, trade.SId>> IN
    IF k \in DOMAIN st.grouped
    THEN LET t == FilledTrade(st.grouped[k], h, st.idx, symbol, trade)
         IN  [grouped |-> [st.grouped EXCEPT ![k] = t],
              out |-> Append(st.out, t),
              idx |-> st.idx + 1]
    ELSE [st EXCEPT !.out = <<>>]

\* One trade of the join on st = [grouped, out, idx]: a trade without a
\* grouped record is logged and skipped.
JoinOne(st, h, symbol, trade) ==
    LET k == <<trade.BId, trade.SId>> IN
    IF k \in DOMAIN st.grouped
    THEN LET t == FilledTrade(st.grouped[k], h, st.idx, symbol, trade)
         IN  [grouped |-> [st.grouped EXCEPT ![k] = t],
              out |-> Append(st.out, t),
              idx |-> st.idx + 1]
    ELSE st

RECURSIVE JoinSymbol(_, _, _, _)
JoinSymbol(st, h, symbol, trades) ==
    IF trades = <<>> THEN st
    ELSE JoinSymbol(JoinOne(st, h, symbol, Head(trades)), h, symbol, Tail(trades))

\* `for symbol, trades := range *allTrades`, the symbols visited in the order
\* symOrder: the order of a Go map range is not specified.
RECURSIVE JoinSymbols(_, _, _, _)
JoinSymbols(st, h, allTrades, symOrder) ==
    IF symOrder = <<>> THEN st
    ELSE JoinSymbols(JoinSymbol(st, h, Head(symOrder), allTrades[Head(symOrder)]),
                     h, allTrades, Tail(symOrder))

JoinTrades(grouped, h, allTrades, symOrder) ==
    JoinSymbols([grouped |-> grouped, out |-> <<>>, idx |-> 0], h, allTrades, symOrder).out

\* ----------------------------------------------------- account aggregator

\* Bech32 strings of the account addresses; the address is the index.
Bech32Names == <<"bnc1buyer", "bnc1seller", "bnc1other", "bnc1extra">>

\* sdk.AccAddressFromBech32 with the error dropped: 0 is the empty address.
AccAddressFromBech32(str) ==
    IF \E i \in 1..Len(Bech32Names) : Bech32Names[i] = str
    THEN CHOOSE i \in 1..Len(Bech32Names) : Bech32Names[i] = str
    ELSE 0

\* AccountMapper.GetAccount(...).(types.NamedAccount)
IsNamedAccount(store, addr) == addr \in DOMAIN store /\ store[addr].variant = "named"

\* The free-coin loop on st = [assets, assetsMap]: assets holds copies,
\* assetsMap the addressed records.
RECURSIVE FreeCoins(_, _)
FreeCoins(st, coins) ==
    IF coins = <<>> THEN st
    ELSE LET c == Head(coins) IN
         IF c.Denom \in DOMAIN st.assetsMap
         THEN FreeCoins([st EXCEPT !.assetsMap[c.Denom].Free = c.Amount], Tail(coins))
         ELSE LET newAB == [Asset |-> c.Denom, Free |-> c.Amount, Frozen |-> 0, Locked |-> 0]
              IN  FreeCoins([assets |-> Append(st.assets, newAB),
                             assetsMap |-> [d \in DOMAIN st.assetsMap \cup {c.Denom} |->
                                               IF d = c.Denom THEN newAB ELSE st.assetsMap[d]]],
                            Tail(coins))

\* The frozen-coin and locked-coin loops: they write through assetsMap only.
RECURSIVE OtherCoins(_, _, _)
OtherCoins(st, coins, field) ==
    IF coins = <<>> THEN st
    ELSE LET c == Head(coins)
             old == IF c.Denom \in DOMAIN st.assetsMap THEN st.assetsMap[c.Denom]
                    ELSE [Asset |-> c.Denom, Free |-> 0, Frozen |-> 0, Locked |-> 0]
             new == IF field = "Frozen" THEN [old EXCEPT !.Frozen = c.Amount]
                    ELSE [old EXCEPT !.Locked = c.Amount]
         IN  OtherCoins([st EXCEPT !.assetsMap =
                            [d \in DOMAIN st.assetsMap \cup {c.Denom} |->
                                IF d = c.Denom THEN new ELSE st.assetsMap[d]]],
                        Tail(coins), field)

\* pub.Account{bech32Str, assets}
AccountOf(bech32Str, acc) ==
    LET s1 == FreeCoins([assets |-> <<>>, assetsMap |-> EmptyMap], acc.Coins)
        s2 == OtherCoins(s1, acc.Frozen, "Frozen")
        s3 == OtherCoins(s2, acc.Locked, "Locked")
    IN  [Address |-> bech32Str, Assets |-> s3.assets]

\* The addresses of accs that getAccountBalances adds to res.
Resolved(store, res, accs) ==
    {a \in accs \ DOMAIN res : IsNamedAccount(store, AccAddressFromBech32(a))}

getAccountBalances(store, res, accs) ==
    [a \in DOMAIN res \cup Resolved(store, res, accs) |->
        IF a \in DOMAIN res THEN res[a]
        ELSE AccountOf(a, store[AccAddressFromBech32(a)])]

\* An aggregator that leaves the trade-related addresses out.
getAllChangedTxOnly(store, txRelatedAccounts, tradeRelatedAccounts) ==
    getAccountBalances(store, EmptyMap, txRelatedAccounts)

getAllChangedAccountBalances(store, txRelatedAccounts, tradeRelatedAccounts) ==
    getAccountBalances(store, getAccountBalances(store, EmptyMap, txRelatedAccounts),
                       tradeRelatedAccounts)

\* ------------------------------------------------- order registry (keeper)

Symbol == "XYZ_BNB"
OrderIds == <<"o1", "o2", "o3", "o4", "o5", "o6">>
OrderNo(id) == CHOOSE i \in 1..Len(OrderIds) : OrderIds[i] = id

Buyer == Bech32Names[1]
Seller == Bech32Names[2]
OwnerOf(side) == IF side = "BUY" THEN Buyer ELSE Seller

TerminalKinds == {"CANCEL", "FILLED_FULL", "EXPIRED", "IOC_NO_FILL"}

\* The ids of S as a list in submission order.
RECURSIVE IdList(_)
IdList(S) ==
    IF S = {} THEN <<>>
    ELSE LET m == CHOOSE x \in S : \A y \in S : OrderNo(x) <= OrderNo(y)
         IN  <<m>> \o IdList(S \ {m})

\* DexKeeper.CollectOrderInfoForPublish, which NewOrderKeeper receives as
\* publicationConfig.PublishMarketData.
CollectOrderInfoForPublish(cfg) == cfg.PublishMarketData

\* A change of order id to kind, recorded in the change list and the map.
RecordChange(st, id, kind, owner) ==
    [changes |-> Append(st.changes, [Id |-> id, kind |-> kind]),
     map |-> IF id \in DOMAIN st.map
             THEN [st.map EXCEPT ![id].kind = kind]
             ELSE Put(st.map, id, [kind |-> kind, owner |-> owner,
                                   FeeAsset |-> "", Fee |-> 0])]

RECURSIVE RecordChanges(_, _, _, _)
RecordChanges(st, ids, kindOf, bk) ==
    IF ids = <<>> THEN st
    ELSE RecordChanges(RecordChange(st, Head(ids), kindOf[Head(ids)], bk[Head(ids)].owner),
                       Tail(ids), kindOf, bk)

\* DexKeeper.GetTradeRelatedAccounts: the owners of the orders of the
\* change list.
GetTradeRelatedAccounts(orders, ordersMap) ==
    {ordersMap[orders[i].Id].owner : i \in {j \in 1..Len(orders) : orders[j].Id \in DOMAIN ordersMap}}

\* -------------------------------------------- matching engine (black box)

Buys(bk) == {id \in DOMAIN bk : bk[id].side = "BUY"}
Sells(bk) == {id \in DOMAIN bk : bk[id].side = "SELL"}

\* The matchings of resting buys with resting sells; left says whether the
\* seller keeps an open remainder (a partial fill).
Matchings(bk) ==
    {M \in SUBSET (Buys(bk) \X Sells(bk) \X BOOLEAN) :
        \A p, q \in M : p # q => (p[1] # q[1] /\ p[2] # q[2])}

Matched(M) == {p[1] : p \in M} \cup {p[2] : p \in M}

\* The orders of this block that may expire unfilled (IOC), given M.
Expirable(bk, h, M) == {id \in DOMAIN bk \ Matched(M) : bk[id].createdHeight = h}

FillFee == <<[Denom |-> "BNB", Amount |-> 1]>>
IocFee == <<[Denom |-> "BNB", Amount |-> iocExpireFee]>>

PairOf(M, b) == CHOOSE p \in M : p[1] = b

TradeOf(p) ==
    [BId |-> p[1], SId |-> p[2], LastPx |-> 102000, LastQty |-> 3000000,
     BuyCumQty |-> 3000000]

FillTransfers(p) ==
    <<[Bid |-> p[1], Sid |-> p[2], IsBuyer |-> TRUE, IsExpired |-> FALSE, Tokens |-> FillFee],
      [Bid |-> p[1], Sid |-> p[2], IsBuyer |-> FALSE, IsExpired |-> FALSE, Tokens |-> FillFee]>>

ExpireTransfer(bk, id) ==
    [Bid |-> IF bk[id].side = "BUY" THEN id ELSE "",
     Sid |-> IF bk[id].side = "BUY" THEN "" ELSE id,
     IsBuyer |-> bk[id].side = "BUY", IsExpired |-> TRUE, Tokens |-> IocFee]

RECURSIVE Concat(_)
Concat(ss) == IF ss = <<>> THEN <<>> ELSE Head(ss) \o Concat(Tail(ss))

\* The kind each order touched by the outcome (M, E) ends the block with.
OutcomeKind(M, E) ==
    [id \in Matched(M) \cup E |->
        IF id \in E THEN "IOC_NO_FILL"
        ELSE IF \E p \in M : p[2] = id /\ p[3] THEN "FILLED_PARTIAL"
        ELSE "FILLED_FULL"]

\* What MatchAndAllocateAll produces for the matching M and the expiries E:
\* the trades per symbol, the Transfers in emission order, the kinds.
MatchOutcome(bk, M, E) ==
    LET bids == IdList({p[1] : p \in M}) IN
    [trades |-> [s \in {Symbol} |-> [i \in 1..Len(bids) |-> TradeOf(PairOf(M, bids[i]))]],
     transfers |-> Concat([i \in 1..Len(bids) |-> FillTransfers(PairOf(M, bids[i]))])
                   \o [i \in 1..Cardinality(E) |-> ExpireTransfer(bk, IdList(E)[i])],
     kinds |-> OutcomeKind(M, E)]

NoMatchOut == [trades |-> EmptyMap, transfers |-> <<>>, kinds |-> EmptyMap]

\* The resting book after the outcome: filled and expired orders leave.
BookAfter(bk, kinds) ==
    [id \in {x \in DOMAIN bk : x \notin DOMAIN kinds \/ kinds[x] = "FILLED_PARTIAL"} |-> bk[id]]

\* The keeper's change list and map after the outcome.
ChangesAfter(cfg, changes, map, bk, kinds) ==
    IF CollectOrderInfoForPublish(cfg)
    THEN RecordChanges([changes |-> changes, map |-> map], IdList(DOMAIN kinds), kinds, bk)
    ELSE [changes |-> changes, map |-> map]

\* ------------------------------------- allocation of funds (black box)
\* What MatchAndAllocateAll moves between accounts: a resting buy has its
\* notional locked, a resting sell its quantity; a fill takes the traded
\* amounts out of the locks, an order that leaves the book gets the rest of
\* its lock back, and every fee of a Transfer goes to the fee collector.

BuyLock == 3060
SellLock == 4000000
TradedQty == 3000000
FeeCollector == 3

Held(coins, denom) ==
    SeqSum([i \in 1..Len(coins) |-> IF coins[i].Denom = denom THEN coins[i].Amount ELSE 0])

Plus(coins, denom, n) ==
    [i \in 1..Len(coins) |->
        IF coins[i].Denom = denom THEN [coins[i] EXCEPT !.Amount = @ + n] ELSE coins[i]]

Credit(store, addr, denom, n) == [store EXCEPT ![addr].Coins = Plus(@, denom, n)]
Unlock(store, addr, denom, n) == [store EXCEPT ![addr].Locked = Plus(@, denom, -n)]

\* One fill: p = <<bid, sid, left>>.
FillMoved(store, bk, p) ==
    LET buyer == AccAddressFromBech32(bk[p[1]].owner)
        seller == AccAddressFromBech32(bk[p[2]].owner)
        s1 == Credit(Unlock(store, buyer, "BNB", BuyLock), buyer, "XYZ", TradedQty)
        s2 == Credit(Unlock(s1, seller, "XYZ", TradedQty), seller, "BNB", BuyLock)
    IN  IF p[3] THEN s2
        ELSE Credit(Unlock(s2, seller, "XYZ", SellLock - TradedQty),
                    seller, "XYZ", SellLock - TradedQty)

\* One expiry: the whole lock of the order comes back.
ExpiryMoved(store, bk, id) ==
    LET owner == AccAddressFromBech32(bk[id].owner) IN
    IF bk[id].side = "BUY"
    THEN Credit(Unlock(store, owner, "BNB", BuyLock), owner, "BNB", BuyLock)
    ELSE Credit(Unlock(store, owner, "XYZ", SellLock), owner, "XYZ", SellLock)

RECURSIVE FillsMoved(_, _, _)
FillsMoved(store, bk, M) ==
    IF M = {} THEN store
    ELSE LET p == CHOOSE q \in M : TRUE IN FillsMoved(FillMoved(store, bk, p), bk, M \ {p})

RECURSIVE ExpiriesMoved(_, _, _)
ExpiriesMoved(store, bk, E) ==
    IF E = {} THEN store
    ELSE LET id == CHOOSE x \in E : TRUE
         IN  ExpiriesMoved(ExpiryMoved(store, bk, id), bk, E \ {id})

\* A fee collection that debits the payer and credits nobody.
RECURSIVE FeesBurnt(_, _, _)
FeesBurnt(store, bk, transfers) ==
    IF transfers = <<>> THEN store
    ELSE LET t == Head(transfers)
             payer == AccAddressFromBech32(bk[IF t.IsBuyer THEN t.Bid ELSE t.Sid].owner)
             fee == SeqSum([i \in 1..Len(t.Tokens) |-> t.Tokens[i].Amount])
         IN  FeesBurnt(Credit(store, payer, "BNB", -fee), bk, Tail(transfers))

\* The fee of every Transfer goes from its payer to the fee collector.
RECURSIVE FeesPaid(_, _, _)
FeesPaid(store, bk, transfers) ==
    IF transfers = <<>> THEN store
    ELSE LET t == Head(transfers)
             payer == AccAddressFromBech32(bk[IF t.IsBuyer THEN t.Bid ELSE t.Sid].owner)
             fee == SeqSum([i \in 1..Len(t.Tokens) |-> t.Tokens[i].Amount])
         IN  FeesPaid(Credit(Credit(store, payer, "BNB", -fee), FeeCollector, "BNB", fee),
                      bk, Tail(transfers))

Allocated(store, bk, M, E, transfers) ==
    FeesPaid(ExpiriesMoved(FillsMoved(store, bk, M), bk, E), bk, transfers)

\* ---------------------------------------------------- order-book snapshot

BookSymbols == <<"ABC_BNB", "XYZ_BNB">>

\* The price levels of one side of one symbol: price -> cumulated quantity.
\* The keeper's levels: symbol -> [buys, sells].
EmptyBook == [sym \in Range(BookSymbols) |-> [buys |-> EmptyMap, sells |-> EmptyMap]]
NoLevels == [pre |-> EmptyBook, post |-> EmptyBook]

\* The prices of S from the best one on: buys from the highest, sells from
\* the lowest.
RECURSIVE ByPriority(_, _)
ByPriority(S, side) ==
    IF S = {} THEN <<>>
    ELSE LET best == CHOOSE p \in S :
                        \A q \in S : IF side = "buys" THEN q <= p ELSE p <= q
         IN  <<best>> \o ByPriority(S \ {best}, side)

\* The best `depth` prices of the levels lv.
TopPrices(lv, side, depth) ==
    LET all == ByPriority(DOMAIN lv, side)
    IN  SubSeq(all, 1, IF Len(all) < depth THEN Len(all) ELSE depth)

\* The changed levels of one side: the levels of the new top whose quantity
\* is new, then the levels of the old top that left it, with quantity 0.
ChangedLevels(pre, post, side, depth) ==
    LET old == TopPrices(pre, side, depth)
        new == TopPrices(post, side, depth)
        fresh == SelectSeq(new, LAMBDA p : p \notin Range(old) \/ pre[p] # post[p])
        gone == SelectSeq(old, LAMBDA p : p \notin Range(new))
    IN  [i \in 1..Len(fresh) |-> [Price |-> fresh[i], Qty |-> post[fresh[i]]]]
        \o [i \in 1..Len(gone) |-> [Price |-> gone[i], Qty |-> 0]]

\* A snapshot that leaves out the levels that disappeared.
GetOrderBookNoGone(levels, depth) ==
    LET Fresh(sym, side) ==
            SelectSeq(ChangedLevels(levels.pre[sym][side], levels.post[sym][side], side, depth),
                      LAMBDA l : l.Qty # 0)
        all == [i \in 1..Len(BookSymbols) |->
                   [Symbol |-> BookSymbols[i], Buys |-> Fresh(BookSymbols[i], "buys"),
                    Sells |-> Fresh(BookSymbols[i], "sells")]]
    IN  SelectSeq(all, LAMBDA d : d.Buys # <<>> \/ d.Sells # <<>>)

\* DexKeeper.GetOrderBookForPublish(depth): one OrderBookDelta for every
\* symbol with a changed level.
GetOrderBookForPublish(levels, depth) ==
    LET Delta(sym, side) ==
            ChangedLevels(levels.pre[sym][side], levels.post[sym][side], side, depth)
        all == [i \in 1..Len(BookSymbols) |->
                   [Symbol |-> BookSymbols[i], Buys |-> Delta(BookSymbols[i], "buys"),
                    Sells |-> Delta(BookSymbols[i], "sells")]]
    IN  SelectSeq(all, LAMBDA d : d.Buys # <<>> \/ d.Sells # <<>>)

\* ------------------------------------------------------------ publication

\* A publication check that looks at the flags alone.
ShouldPublishFlagsOnly(cfg, live) ==
    cfg.PublishMarketData \/ cfg.PublishAccountBalance \/ cfg.PublishOrderBook

\* MarketDataPublisher.ShouldPublish: liveness and any per-feed flag.
ShouldPublish(cfg, live) ==
    live /\ (cfg.PublishMarketData \/ cfg.PublishAccountBalance \/ cfg.PublishOrderBook)

NewBlockInfoSwapped(h, timestamp, trades, orderChanges, orderChangesMap, accounts, latestPriceLevels) ==
    [height |-> timestamp, timestamp |-> h, tradesToPublish |-> trades,
     orderChanges |-> orderChanges, orderChangesMap |-> orderChangesMap,
     accounts |-> accounts, latestPricesLevels |-> latestPriceLevels]

NewBlockInfoToPublish(h, timestamp, trades, orderChanges, orderChangesMap, accounts, latestPriceLevels) ==
    [height |-> h, timestamp |-> timestamp, tradesToPublish |-> trades,
     orderChanges |-> orderChanges, orderChangesMap |-> orderChangesMap,
     accounts |-> accounts, latestPricesLevels |-> latestPriceLevels]

NoBlock == NewBlockInfoToPublish(0, 0, <<>>, <<>>, EmptyMap, EmptyMap, <<>>)

\* Lines 356-379 of EndBlocker: the block info built for the hand-off.
CollectPublishInfo(cfg, h, now, trades, orders, ordersMap, store, txRelated) ==
    NewBlockInfoToPublish(h, now, trades, orders, ordersMap,
        IF cfg.PublishAccountBalance
        THEN getAllChangedAccountBalances(store, txRelated,
                                          GetTradeRelatedAccounts(orders, ordersMap))
        ELSE EmptyMap,
        IF cfg.PublishOrderBook THEN GetOrderBookForPublish(bookLevels, 20) ELSE <<>>)

\* The ids the worker reports for a block: the entries of terminal kind.
IdsToRemove(block) ==
    IdList({id \in DOMAIN block.orderChangesMap :
               block.orderChangesMap[id].kind \in TerminalKinds})

\* ------------------------------------------------------------------- Init

BlockTimes == {86390, 86405}

Flags(md, ab, ob) ==
    [PublishMarketData |-> md, PublishAccountBalance |-> ab, PublishOrderBook |-> ob]

\* The start-ups tried: the flags, whether publisher.Init succeeded, and the
\* channel capacities. The publisher exists only when a flag is on.
StartUps ==
    {[cfg |-> Flags(TRUE, TRUE, FALSE), live |-> TRUE, publish |-> c, remove |-> r] :
        c \in {0, PublicationChannelSize}, r \in {1, ToRemoveOrderIdChannelSize}}
    \cup {[cfg |-> Flags(FALSE, TRUE, FALSE), live |-> TRUE, publish |-> 1, remove |-> 1],
          [cfg |-> Flags(TRUE, TRUE, FALSE), live |-> FALSE, publish |-> 1, remove |-> 1],
          [cfg |-> Flags(FALSE, TRUE, FALSE), live |-> FALSE, publish |-> 1, remove |-> 1]}

Coin(denom, amount) == [Denom |-> denom, Amount |-> amount]

NamedAccount(coins, frozen, locked) ==
    [variant |-> "named", Coins |-> coins, Frozen |-> frozen, Locked |-> locked]

\* The accounts of the buyer and the seller.
TraderStore ==
    [a \in {1, 2} |-> NamedAccount(<<Coin("BNB", 100), Coin("XYZ", 100)>>, <<>>, <<>>)]

InitWith(su) ==
    /\ height = 0 /\ blockTime = 0 /\ lastBlockTime = 0
    /\ pc = "idle"
    /\ publicationConfig = su.cfg
    /\ IsLive = su.live
    /\ chanSize = [publish |-> su.publish, remove |-> su.remove]
    /\ book = EmptyMap /\ nextOrder = 0
    /\ OrderChanges = <<>> /\ OrderChangesMap = EmptyMap
    /\ involved = {}
    /\ accountStore = TraderStore
    /\ calls = <<>>
    /\ matchOut = NoMatchOut /\ emitted = 0 /\ transCh = <<>>
    /\ tradesToPublish = <<>> /\ replicaTrades = <<>>
    /\ icoDone = "none"
    /\ outbox = NoBlock
    /\ ToPublishCh = <<>> /\ ToRemoveOrderIdCh = <<>>
    /\ worker = [pc |-> IF su.live THEN "recv" ELSE "stopped", block |-> NoBlock, ids |-> <<>>]
    /\ sentLog = <<>> /\ recvLog = <<>> /\ reported = {}
    /\ accountsToPublish = EmptyMap
    /\ bookLevels = NoLevels

Init == \E su \in StartUps : InitWith(su)

\* ---------------------------------------------------- block and DeliverTx

BeginBlock ==
    /\ pc = "idle"
    /\ height < MaxHeight
    /\ \E t \in BlockTimes :
          /\ t >= lastBlockTime
          /\ blockTime' = t
    /\ height' = height + 1
    /\ pc' = "deliver"
    /\ UNCHANGED <<lastBlockTime, configVars, bookVars, keeperVars, matchVars, pipeVars,
                   accVars, calls, icoDone>>

\* The deliver-state context after a transaction signed by owner.
Involve(cfg, inv, owner) == IF cfg.PublishAccountBalance THEN inv \cup {owner} ELSE inv

\* DeliverTx of a NewOrder message: DexKeeper.AddOrder. At most maxOrders
\* orders are submitted.
AddOrderUpTo(maxOrders) ==
    /\ pc = "deliver"
    /\ nextOrder < maxOrders
    /\ \E side \in {"BUY", "SELL"} :
          LET id == OrderIds[nextOrder + 1]
              o == [side |-> side, owner |-> OwnerOf(side), createdHeight |-> height]
              st == IF CollectOrderInfoForPublish(publicationConfig)
                    THEN RecordChange([changes |-> OrderChanges, map |-> OrderChangesMap],
                                      id, "NEW", o.owner)
                    ELSE [changes |-> OrderChanges, map |-> OrderChangesMap]
          IN  /\ book' = Put(book, id, o)
              /\ OrderChanges' = st.changes
              /\ OrderChangesMap' = st.map
              /\ involved' = Involve(publicationConfig, involved, o.owner)
    /\ nextOrder' = nextOrder + 1
    /\ UNCHANGED <<chainVars, pc, configVars, bookVars, matchVars, pipeVars, accountStore,
                   accountsToPublish, calls, icoDone>>

AddOrder == AddOrderUpTo(MaxOrders)

\* DeliverTx of a CancelOrder message: DexKeeper.CancelOrder.
CancelOrder ==
    /\ pc = "deliver"
    /\ \E id \in DOMAIN book :
          LET st == IF CollectOrderInfoForPublish(publicationConfig)
                    THEN RecordChange([changes |-> OrderChanges, map |-> OrderChangesMap],
                                      id, "CANCEL", book[id].owner)
                    ELSE [changes |-> OrderChanges, map |-> OrderChangesMap]
          IN  /\ book' = Delete(book, id)
              /\ OrderChanges' = st.changes
              /\ OrderChangesMap' = st.map
              /\ involved' = Involve(publicationConfig, involved, book[id].owner)
    /\ UNCHANGED <<chainVars, pc, configVars, bookVars, nextOrder, matchVars, pipeVars, accountStore,
                   accountsToPublish, calls, icoDone>>

\* Commit: the check state takes the header of the block just ended.
Commit ==
    /\ pc = "return"
    /\ lastBlockTime' = blockTime
    /\ pc' = "idle"
    /\ calls' = <<>>
    /\ matchOut' = NoMatchOut /\ emitted' = 0
    /\ tradesToPublish' = <<>> /\ replicaTrades' = <<>>
    /\ reported' = {}
    /\ outbox' = NoBlock
    /\ UNCHANGED <<height, blockTime, configVars, bookVars, keeperVars, transCh, ToPublishCh,
                   ToRemoveOrderIdCh, worker, sentLog, recvLog, accVars, icoDone>>

\* --------------------------------------------------------------- EndBlocker

\* A publication check that skips a block without order changes and trades.
HandoffIfChanged(changes, map, trades) ==
    IF ShouldPublish(publicationConfig, IsLive) /\ (changes # <<>> \/ trades # <<>>)
    THEN /\ outbox' = CollectPublishInfo(publicationConfig, height, blockTime, trades,
                                         changes, map, accountStore, involved)
         /\ pc' = "send"
    ELSE /\ outbox' = outbox
         /\ pc' = "return"

\* `if app.publisher.ShouldPublish()` with the change list, the map and the
\* trades as they are at that point: the block info is built and EndBlocker
\* stands at the send, or EndBlocker returns.
Handoff(changes, map, trades) ==
    IF ShouldPublish(publicationConfig, IsLive)
    THEN /\ outbox' = CollectPublishInfo(publicationConfig, height, blockTime, trades,
                                         changes, map, accountStore, involved)
         /\ pc' = "send"
    ELSE /\ outbox' = outbox
         /\ pc' = "return"

\* The normal block with a fee collector: MatchAndAllocateAll starts and runs
\* until its first send on transCh.
\* The account store is kept abstract (accounts false) except where the
\* balances are what is looked at.
EndBlockerCollectWith(accounts) ==
    /\ pc = "deliver"
    /\ IsNormalBlock(lastBlockTime, blockTime, height)
    /\ publicationConfig.PublishMarketData /\ IsLive
    /\ \E M \in Matchings(book) : \E E \in SUBSET Expirable(book, height, M) :
          LET out == MatchOutcome(book, M, E)
              st == ChangesAfter(publicationConfig, OrderChanges, OrderChangesMap, book, out.kinds)
          IN  /\ matchOut' = out
              /\ book' = BookAfter(book, out.kinds)
              /\ OrderChanges' = st.changes
              /\ OrderChangesMap' = st.map
              /\ accountStore' = IF accounts THEN Allocated(accountStore, book, M, E, out.transfers)
                                 ELSE accountStore
    /\ calls' = <<"MatchAndAllocateAll">>
    /\ emitted' = 0
    /\ transCh' = <<>>
    /\ pc' = "match"
    /\ UNCHANGED <<chainVars, configVars, bookVars, nextOrder, tradesToPublish, replicaTrades,
                   pipeVars, involved, accountsToPublish, icoDone>>

EndBlockerCollect == EndBlockerCollectWith(FALSE)

\* feeCollectorForTrades: `transCh <- trans`, called by MatchAndAllocateAll on
\* the state-machine thread; the send waits while the buffer is full.
FeeCollectorSend ==
    /\ pc = "match"
    /\ emitted < Len(matchOut.transfers)
    /\ Len(transCh) < FeeCollectionChannelSize
    /\ transCh' = Append(transCh, matchOut.transfers[emitted + 1])
    /\ emitted' = emitted + 1
    /\ UNCHANGED <<chainVars, pc, configVars, bookVars, keeperVars, matchOut, tradesToPublish,
                   replicaTrades, pipeVars, accVars, calls, icoDone>>

\* MatchAndAllocateAll has returned: close(transCh), the drain of transCh, the
\* join with GetLastTrades() and the publication check.
MatchReturn ==
    /\ pc = "match"
    /\ emitted = Len(matchOut.transfers)
    /\ LET st == CollectAll([grouped |-> EmptyMap, map |-> OrderChangesMap], transCh) IN
       /\ \E symOrder \in Perms(DOMAIN matchOut.trades) :
             LET trades == JoinTrades(st.grouped, height, matchOut.trades, symOrder)
             IN  /\ tradesToPublish' = trades
                 /\ Handoff(OrderChanges, st.map, trades)
       /\ \E symOrder \in Perms(DOMAIN matchOut.trades) :
             replicaTrades' = JoinTrades(st.grouped, height, matchOut.trades, symOrder)
       /\ OrderChangesMap' = st.map
    /\ transCh' = <<>>
    /\ UNCHANGED <<chainVars, configVars, bookVars, book, nextOrder, OrderChanges, matchOut, emitted,
                   ToPublishCh, ToRemoveOrderIdCh, worker, sentLog, recvLog, reported,
                   accVars, calls, icoDone>>

\* The normal block without a fee collector: MatchAndAllocateAll(..., nil).
EndBlockerNoCollect ==
    /\ pc = "deliver"
    /\ IsNormalBlock(lastBlockTime, blockTime, height)
    /\ ~(publicationConfig.PublishMarketData /\ IsLive)
    /\ \E M \in Matchings(book) : \E E \in SUBSET Expirable(book, height, M) :
          LET out == MatchOutcome(book, M, E)
              st == ChangesAfter(publicationConfig, OrderChanges, OrderChangesMap, book, out.kinds)
          IN  /\ matchOut' = out
              /\ book' = BookAfter(book, out.kinds)
              /\ OrderChanges' = st.changes
              /\ OrderChangesMap' = st.map
              /\ Handoff(st.changes, st.map, tradesToPublish)
    /\ calls' = <<"MatchAndAllocateAll">>
    /\ UNCHANGED <<chainVars, configVars, bookVars, nextOrder, emitted, transCh, tradesToPublish,
                   replicaTrades, ToPublishCh, ToRemoveOrderIdCh, worker, sentLog, recvLog,
                   reported, accVars, icoDone>>

\* The orders EndBreatheBlock may expire: those of earlier blocks.
Aged(bk, h) == {id \in DOMAIN bk : bk[id].createdHeight < h}

\* The breathe block: ico.EndBlockAsync is launched, dex.EndBreatheBlock runs,
\* and EndBlocker stands at `<-icoDone`.
EndBlockerBreathe ==
    /\ pc = "deliver"
    /\ ~IsNormalBlock(lastBlockTime, blockTime, height)
    /\ \E X \in SUBSET Aged(book, height) :
          LET kinds == [id \in X |-> "EXPIRED"]
              st == ChangesAfter(publicationConfig, OrderChanges, OrderChangesMap, book, kinds)
          IN  /\ book' = BookAfter(book, kinds)
              /\ OrderChanges' = st.changes
              /\ OrderChangesMap' = st.map
    /\ calls' = <<"ico.EndBlockAsync", "dex.EndBreatheBlock">>
    /\ icoDone' = "running"
    /\ pc' = "ico"
    /\ UNCHANGED <<chainVars, configVars, bookVars, nextOrder, matchVars, pipeVars, accVars>>

\* The ICO end-block task completes and signals icoDone.
IcoFinish ==
    /\ icoDone = "running"
    /\ icoDone' = "done"
    /\ UNCHANGED <<chainVars, pc, configVars, bookVars, keeperVars, matchVars, pipeVars, accVars, calls>>

\* A breathe block that goes on to the publication check without the signal.
BreatheNoAwait ==
    /\ pc = "ico"
    /\ icoDone' = icoDone
    /\ Handoff(OrderChanges, OrderChangesMap, tradesToPublish)
    /\ UNCHANGED <<chainVars, configVars, bookVars, keeperVars, matchVars, ToPublishCh,
                   ToRemoveOrderIdCh, worker, sentLog, recvLog, reported, accVars, calls>>

\* `<-icoDone`, then the publication check.
BreatheAwait ==
    /\ pc = "ico"
    /\ icoDone = "done"
    /\ icoDone' = "none"
    /\ Handoff(OrderChanges, OrderChangesMap, tradesToPublish)
    /\ UNCHANGED <<chainVars, configVars, bookVars, keeperVars, matchVars, ToPublishCh,
                   ToRemoveOrderIdCh, worker, sentLog, recvLog, reported, accVars, calls>>

\* ------------------------------------------------------ pipeline hand-off

CanSendAlways(ch, cap) == TRUE

\* A send on a channel of capacity cap whose buffer holds ch goes through
\* without a receiver only while the buffer has room.
CanSend(ch, cap) == Len(ch) < cap

\* A clean-up that leaves the caches as they are.
ClearNothing ==
    /\ OrderChanges' = OrderChanges
    /\ involved' = involved

\* Lines 381-383: ClearOrderChanges and the fresh affected-address set.
ClearCaches ==
    /\ OrderChanges' = <<>>
    /\ involved' = {}

\* `app.publisher.ToPublishCh <- ...` into the buffer, then the clean-up.
PublishSend ==
    /\ pc = "send"
    /\ CanSend(ToPublishCh, chanSize.publish)
    /\ ToPublishCh' = Append(ToPublishCh, outbox)
    /\ sentLog' = Append(sentLog, outbox.height)
    /\ outbox' = outbox
    /\ ClearCaches
    /\ pc' = "drain"
    /\ UNCHANGED <<chainVars, configVars, bookVars, book, nextOrder, OrderChangesMap, matchVars,
                   ToRemoveOrderIdCh, worker, recvLog, reported, accountStore,
                   accountsToPublish, calls, icoDone>>

\* The worker's state on receiving block.
Received(block) == [pc |-> "report", block |-> block, ids |-> IdsToRemove(block)]

\* The same send when the buffer has no room and is empty (an unbuffered
\* channel): it completes by handing the value to the worker waiting at its
\* receive.
PublishRendezvous ==
    /\ pc = "send"
    /\ ~CanSend(ToPublishCh, chanSize.publish)
    /\ ToPublishCh = <<>>
    /\ worker.pc = "recv"
    /\ worker' = Received(outbox)
    /\ sentLog' = Append(sentLog, outbox.height)
    /\ recvLog' = Append(recvLog, outbox.height)
    /\ outbox' = outbox
    /\ ClearCaches
    /\ pc' = "drain"
    /\ UNCHANGED <<chainVars, configVars, bookVars, book, nextOrder, OrderChangesMap, matchVars,
                   ToPublishCh, ToRemoveOrderIdCh, reported, accountStore,
                   accountsToPublish, calls, icoDone>>

\* A removal that takes every entry of terminal kind along with id.
RemoveOrderIdAndTerminal(map, id) ==
    [x \in {y \in DOMAIN map : y # id /\ map[y].kind \notin TerminalKinds} |-> map[x]]

\* delete(app.DexKeeper.OrderChangesMap, id)
RemoveOrderId(map, id) == Delete(map, id)

\* A removal on a map that the block info of the worker shares.
DrainRemoveShared ==
    /\ pc = "drain"
    /\ ToRemoveOrderIdCh # <<>>
    /\ OrderChangesMap' = RemoveOrderId(OrderChangesMap, Head(ToRemoveOrderIdCh))
    /\ worker' = IF worker.block = NoBlock THEN worker
                 ELSE [worker EXCEPT !.block.orderChangesMap =
                                          RemoveOrderId(@, Head(ToRemoveOrderIdCh))]
    /\ ToRemoveOrderIdCh' = Tail(ToRemoveOrderIdCh)
    /\ UNCHANGED <<chainVars, pc, configVars, bookVars, book, nextOrder, OrderChanges, matchVars,
                   outbox, ToPublishCh, sentLog, recvLog, reported, accVars,
                   calls, icoDone>>

\* A loop that waits for the done signal alone and never takes an id.
DrainNoIdCase ==
    /\ pc = "drain"
    /\ FALSE
    /\ UNCHANGED vars

\* `case id := <-app.publisher.ToRemoveOrderIdCh`: the id leaves the map.
DrainRemove ==
    /\ pc = "drain"
    /\ ToRemoveOrderIdCh # <<>>
    /\ OrderChangesMap' = RemoveOrderId(OrderChangesMap, Head(ToRemoveOrderIdCh))
    /\ ToRemoveOrderIdCh' = Tail(ToRemoveOrderIdCh)
    /\ UNCHANGED <<chainVars, pc, configVars, bookVars, book, nextOrder, OrderChanges, matchVars,
                   outbox, ToPublishCh, worker, sentLog, recvLog, reported, accVars,
                   calls, icoDone>>

\* A loop that leaves without the done signal.
DrainDoneUnsignalled ==
    /\ pc = "drain"
    /\ pc' = "return"
    /\ UNCHANGED <<chainVars, configVars, bookVars, keeperVars, matchVars, outbox, ToPublishCh,
                   ToRemoveOrderIdCh, worker, sentLog, recvLog, reported, accVars, calls,
                   icoDone>>

\* `case <-app.publisher.RemoveDoneCh`: the unbuffered signal passes when the
\* worker stands at its send; the select may take it whatever
\* ToRemoveOrderIdCh holds. EndBlocker returns.
DrainDone ==
    /\ pc = "drain"
    /\ worker.pc = "report"
    /\ worker.ids = <<>>
    /\ worker' = [pc |-> "recv", block |-> NoBlock, ids |-> <<>>]
    /\ pc' = "return"
    /\ UNCHANGED <<chainVars, configVars, bookVars, keeperVars, matchVars, outbox, ToPublishCh,
                   ToRemoveOrderIdCh, sentLog, recvLog, reported, accVars, calls, icoDone>>

\* ------------------------------------------------------- publisher worker

\* The worker takes the next block info from ToPublishCh.
WorkerRecv ==
    /\ worker.pc = "recv"
    /\ ToPublishCh # <<>>
    /\ worker' = Received(Head(ToPublishCh))
    /\ recvLog' = Append(recvLog, Head(ToPublishCh).height)
    /\ ToPublishCh' = Tail(ToPublishCh)
    /\ UNCHANGED <<chainVars, pc, configVars, bookVars, keeperVars, matchVars, outbox,
                   ToRemoveOrderIdCh, sentLog, reported, accVars, calls, icoDone>>

\* The worker reports the next removable id on ToRemoveOrderIdCh.
WorkerReport ==
    /\ worker.pc = "report"
    /\ worker.ids # <<>>
    /\ CanSend(ToRemoveOrderIdCh, chanSize.remove)
    /\ ToRemoveOrderIdCh' = Append(ToRemoveOrderIdCh, Head(worker.ids))
    /\ reported' = reported \cup {Head(worker.ids)}
    /\ worker' = [worker EXCEPT !.ids = Tail(worker.ids)]
    /\ UNCHANGED <<chainVars, pc, configVars, bookVars, keeperVars, matchVars, outbox, ToPublishCh,
                   sentLog, recvLog, accVars, calls, icoDone>>

\* ------------------------------------------------------------------- Spec

Next ==
    \/ BeginBlock
    \/ AddOrder
    \/ CancelOrder
    \/ EndBlockerCollect
    \/ FeeCollectorSend
    \/ MatchReturn
    \/ EndBlockerNoCollect
    \/ EndBlockerBreathe
    \/ IcoFinish
    \/ BreatheAwait
    \/ PublishSend
    \/ PublishRendezvous
    \/ DrainRemove
    \/ DrainDone
    \/ WorkerRecv
    \/ WorkerReport
    \/ Commit

Spec == Init /\ [][Next]_vars

\* ---------------------------------------------------------------- SpecFee
\* One normal block with a fee collector and up to MaxFeeOrders orders.

InitFee == InitWith([cfg |-> Flags(TRUE, TRUE, FALSE), live |-> TRUE,
                     publish |-> PublicationChannelSize,
                     remove |-> ToRemoveOrderIdChannelSize])

AddFeeOrder == AddOrderUpTo(MaxFeeOrders)

NextFee ==
    \/ BeginBlock
    \/ AddFeeOrder
    \/ EndBlockerCollect
    \/ FeeCollectorSend
    \/ MatchReturn

SpecFee == InitFee /\ [][NextFee]_vars

\* --------------------------------------------------------------- SpecJoin
\* One normal block with a fee collector, taken up when MatchAndAllocateAll
\* has been called: its trades (two symbols) and its Transfers are drawn from
\* the sets below.

JoinSymbolSet == {"ABC_BNB", "XYZ_BNB"}
JoinBids == {"o1", "o3"}
JoinSids == {"o2", "o4"}

\* Trades of the matching engine: the pair (o1, o2) trades at two prices.
JoinTradeSet ==
    {[BId |-> "o1", SId |-> "o2", LastPx |-> 102000, LastQty |-> 3000000, BuyCumQty |-> 3000000],
     [BId |-> "o1", SId |-> "o2", LastPx |-> 101000, LastQty |-> 1000000, BuyCumQty |-> 4000000],
     [BId |-> "o3", SId |-> "o4", LastPx |-> 103000, LastQty |-> 5000000, BuyCumQty |-> 5000000]}

JoinFee(isBuyer, isExpired, free) ==
    IF free THEN <<>>
    ELSE IF isExpired THEN IocFee
    ELSE IF isBuyer THEN <<Coin("BNB", 1)>>
    ELSE <<Coin("XYZ", 3)>>

JoinFill(bid, sid, isBuyer, free) ==
    [Bid |-> bid, Sid |-> sid, IsBuyer |-> isBuyer, IsExpired |-> FALSE,
     Tokens |-> JoinFee(isBuyer, FALSE, free)]

JoinExpiry(bid, sid, isBuyer, free) ==
    [Bid |-> bid, Sid |-> sid, IsBuyer |-> isBuyer, IsExpired |-> TRUE,
     Tokens |-> JoinFee(isBuyer, TRUE, free)]

\* Transfers of the fee collector: fills of the two pairs, with a fee or
\* fee-free, and the expiry of the buy order o3.
JoinTransferSet ==
    {JoinFill("o1", "o2", TRUE, FALSE), JoinFill("o1", "o2", FALSE, FALSE),
     JoinFill("o1", "o2", FALSE, TRUE), JoinFill("o3", "o4", TRUE, FALSE),
     JoinFill("o3", "o4", FALSE, FALSE), JoinExpiry("o3", "", TRUE, FALSE)}

TradeCount(allTrades) ==
    SeqSum([i \in 1..Cardinality(DOMAIN allTrades) |->
               Len(allTrades[(CHOOSE p \in Perms(DOMAIN allTrades) : TRUE)[i]])])

\* What MatchAndAllocateAll may produce: at most maxTrades trades over the
\* symbols and at most maxTransfers Transfers.
JoinOutcomes(maxTrades, maxTransfers) ==
    {[trades |-> t, transfers |-> x, kinds |-> EmptyMap] :
        t \in {f \in [JoinSymbolSet -> SeqsUpTo(JoinTradeSet, maxTrades)] :
                  TradeCount(f) <= maxTrades},
        x \in SeqsUpTo(JoinTransferSet, maxTransfers)}

JoinMap ==
    [id \in JoinBids \cup JoinSids |->
        [kind |-> "NEW", owner |-> IF id \in JoinBids THEN Buyer ELSE Seller,
         FeeAsset |-> "", Fee |-> 0]]

InitJoinWith(outcomes) ==
    /\ height = 43 /\ blockTime = 101 /\ lastBlockTime = 100
    /\ pc = "match"
    /\ publicationConfig = Flags(TRUE, TRUE, FALSE)
    /\ IsLive = TRUE
    /\ chanSize = [publish |-> PublicationChannelSize, remove |-> ToRemoveOrderIdChannelSize]
    /\ book = EmptyMap /\ nextOrder = 4
    /\ OrderChanges = <<>> /\ OrderChangesMap = JoinMap
    /\ involved = {}
    /\ accountStore = TraderStore
    /\ calls = <<"MatchAndAllocateAll">>
    /\ matchOut \in outcomes
    /\ emitted = 0 /\ transCh = <<>>
    /\ tradesToPublish = <<>> /\ replicaTrades = <<>>
    /\ icoDone = "none"
    /\ outbox = NoBlock
    /\ ToPublishCh = <<>> /\ ToRemoveOrderIdCh = <<>>
    /\ worker = [pc |-> "recv", block |-> NoBlock, ids |-> <<>>]
    /\ sentLog = <<>> /\ recvLog = <<>> /\ reported = {}
    /\ accountsToPublish = EmptyMap
    /\ bookLevels = NoLevels

InitJoin == InitJoinWith(JoinOutcomes(MaxJoinTrades, MaxJoinTransfers))

NextJoin ==
    \/ FeeCollectorSend
    \/ MatchReturn

SpecJoin == InitJoin /\ [][NextJoin]_vars

\* --------------------------------------------------------------- SpecFree
\* The same block with the fills of the pair (o1, o2) only, each side with a
\* fee or fee-free; each symbol has at most one trade.

MaxFreeTransfers == 2

FreeTransferSet ==
    {JoinFill("o1", "o2", TRUE, FALSE), JoinFill("o1", "o2", TRUE, TRUE),
     JoinFill("o1", "o2", FALSE, FALSE), JoinFill("o1", "o2", FALSE, TRUE)}

FreeOutcomes(maxTransfers) ==
    {[trades |-> t, transfers |-> x, kinds |-> EmptyMap] :
        t \in [JoinSymbolSet -> SeqsUpTo(JoinTradeSet, 1)],
        x \in SeqsUpTo(FreeTransferSet, maxTransfers)}

InitFree == InitJoinWith(FreeOutcomes(MaxFreeTransfers))

NextFree == NextJoin

SpecFree == InitFree /\ [][NextFree]_vars

\* ------------------------------------------------------------- SpecExpire
\* The same block with expiries among the Transfers: of the buy order o3, of
\* the sell order o4 (which names its pair), a fee-free one of the buy order
\* o1, and two fills; each symbol has at most one trade.

MaxExpireTransfers == 2

ExpireTransferSet ==
    {JoinExpiry("o3", "", TRUE, FALSE), JoinExpiry("o3", "o4", FALSE, FALSE),
     JoinExpiry("o1", "o2", TRUE, TRUE),
     JoinFill("o1", "o2", FALSE, FALSE), JoinFill("o3", "o4", TRUE, FALSE)}

ExpireOutcomes(maxTransfers) ==
    {[trades |-> t, transfers |-> x, kinds |-> EmptyMap] :
        t \in [JoinSymbolSet -> SeqsUpTo(JoinTradeSet, 1)],
        x \in SeqsUpTo(ExpireTransferSet, maxTransfers)}

InitExpire == InitJoinWith(ExpireOutcomes(MaxExpireTransfers))

NextExpire == NextJoin

SpecExpire == InitExpire /\ [][NextExpire]_vars

\* ---------------------------------------------------------------- SpecAcc
\* getAllChangedAccountBalances over account stores: the first two addresses
\* may hold an account, the third never does.

Denoms == <<"BNB", "XYZ">>

\* The amount of a coin entry, by list and denomination.
AmountOf(list, denom) ==
    IF list = "Coins" THEN (IF denom = "BNB" THEN 96940 ELSE 100)
    ELSE IF list = "Frozen" THEN (IF denom = "BNB" THEN 5 ELSE 7)
    ELSE (IF denom = "BNB" THEN 3060 ELSE 11)

\* The coin list (sorted by denomination, as sdk.Coins is) of the
\* denominations D.
CoinsOf(list, D) ==
    LET ds == SelectSeq(Denoms, LAMBDA d : d \in D)
    IN  [i \in 1..Len(ds) |-> Coin(ds[i], AmountOf(list, ds[i]))]

\* Accounts: named ones by the denominations of their three lists, and one of
\* another variant.
AccountValues ==
    {NamedAccount(CoinsOf("Coins", c), CoinsOf("Frozen", f), CoinsOf("Locked", l)) :
        c \in SUBSET Range(Denoms), f \in SUBSET Range(Denoms), l \in SUBSET Range(Denoms)}
    \cup {[variant |-> "other"]}

CoinCount(acc) ==
    IF acc.variant = "named" THEN Len(acc.Coins) + Len(acc.Frozen) + Len(acc.Locked) ELSE 0

StoreCoins(store) ==
    (IF 1 \in DOMAIN store THEN CoinCount(store[1]) ELSE 0)
    + (IF 2 \in DOMAIN store THEN CoinCount(store[2]) ELSE 0)

AccStores(maxCoins) ==
    {st \in UNION {[D -> AccountValues] : D \in SUBSET {1, 2}} : StoreCoins(st) <= maxCoins}

AccNames == {Bech32Names[1], Bech32Names[2], Bech32Names[3]}

\* The keeper's state after one new order of each owner in T.
OwnersMap(T) ==
    [id \in {OrderIds[i] : i \in {j \in 1..3 : Bech32Names[j] \in T}} |->
        [kind |-> "NEW", owner |-> Bech32Names[OrderNo(id)], FeeAsset |-> "", Fee |-> 0]]

OwnersChanges(T) ==
    LET ids == IdList(DOMAIN OwnersMap(T))
    IN  [i \in 1..Len(ids) |-> [Id |-> ids[i], kind |-> "NEW"]]

InitAcc ==
    /\ height = 42 /\ blockTime = 100 /\ lastBlockTime = 100
    /\ pc = "collect"
    /\ publicationConfig = Flags(TRUE, TRUE, FALSE)
    /\ IsLive = TRUE
    /\ chanSize = [publish |-> PublicationChannelSize, remove |-> ToRemoveOrderIdChannelSize]
    /\ book = EmptyMap /\ nextOrder = 3
    /\ \E T \in SUBSET AccNames :
          /\ OrderChanges = OwnersChanges(T)
          /\ OrderChangesMap = OwnersMap(T)
    /\ involved \in SUBSET AccNames
    /\ accountStore \in AccStores(MaxCoins)
    /\ calls = <<"MatchAndAllocateAll">>
    /\ matchOut = NoMatchOut /\ emitted = 0 /\ transCh = <<>>
    /\ tradesToPublish = <<>> /\ replicaTrades = <<>>
    /\ icoDone = "none"
    /\ outbox = NoBlock
    /\ ToPublishCh = <<>> /\ ToRemoveOrderIdCh = <<>>
    /\ worker = [pc |-> "recv", block |-> NoBlock, ids |-> <<>>]
    /\ sentLog = <<>> /\ recvLog = <<>> /\ reported = {}
    /\ accountsToPublish = EmptyMap
    /\ bookLevels = NoLevels

\* Lines 356-368 of EndBlocker with PublishAccountBalance on.
CollectAccounts ==
    /\ pc = "collect"
    /\ accountsToPublish' =
          getAllChangedAccountBalances(accountStore, involved,
              GetTradeRelatedAccounts(OrderChanges, OrderChangesMap))
    /\ pc' = "collected"
    /\ UNCHANGED <<chainVars, configVars, bookVars, keeperVars, matchVars, pipeVars, involved,
                   accountStore, calls, icoDone>>

NextAcc == CollectAccounts

SpecAcc == InitAcc /\ [][NextAcc]_vars

\* --------------------------------------------------------------- SpecBook
\* One normal block with the order-book feed on, taken up at EndBlocker: the
\* keeper's price levels at the last snapshot and now are drawn from the
\* sets below.

BookQtys == {1000000, 3000000}
BuyPrices == {101000, 102000}
SellPrices == {102000, 103000}

\* The level maps over the prices P.
LevelMaps(P) == UNION {[D -> BookQtys] : D \in SUBSET P}

\* XYZ_BNB moves on both sides; ABC_BNB has one buy level or none.
BookOf(abc, buys, sells) ==
    [sym \in Range(BookSymbols) |->
        IF sym = "XYZ_BNB" THEN [buys |-> buys, sells |-> sells]
        ELSE [buys |-> abc, sells |-> EmptyMap]]

Books ==
    {BookOf(abc, b, s) : abc \in LevelMaps({101000}) \ {[p \in {101000} |-> 3000000]},
                         b \in LevelMaps(BuyPrices), s \in LevelMaps(SellPrices)}

InitBook ==
    /\ height = 43 /\ blockTime = 102 /\ lastBlockTime = 101
    /\ pc = "deliver"
    /\ publicationConfig = Flags(FALSE, FALSE, TRUE)
    /\ IsLive = TRUE
    /\ chanSize = [publish |-> PublicationChannelSize, remove |-> ToRemoveOrderIdChannelSize]
    /\ book = EmptyMap /\ nextOrder = 0
    /\ OrderChanges = <<>> /\ OrderChangesMap = EmptyMap
    /\ involved = {}
    /\ accountStore = TraderStore
    /\ calls = <<>>
    /\ matchOut = NoMatchOut /\ emitted = 0 /\ transCh = <<>>
    /\ tradesToPublish = <<>> /\ replicaTrades = <<>>
    /\ icoDone = "none"
    /\ outbox = NoBlock
    /\ ToPublishCh = <<>> /\ ToRemoveOrderIdCh = <<>>
    /\ worker = [pc |-> "recv", block |-> NoBlock, ids |-> <<>>]
    /\ sentLog = <<>> /\ recvLog = <<>> /\ reported = {}
    /\ accountsToPublish = EmptyMap
    /\ bookLevels \in [pre : Books, post : Books]

NextBook == EndBlockerNoCollect

SpecBook == InitBook /\ [][NextBook]_vars

\* ---------------------------------------------------------------- SpecBal
\* One normal block taken up at EndBlocker, with the balances of the account
\* store followed through MatchAndAllocateAll: up to two resting buys of the
\* buyer and two resting sells of the seller, each from an earlier block or
\* from this one.

StartBNB == 100000
StartXYZ == 100000000

BalOrders == {OrderIds[i] : i \in 1..4}
BalSide(id) == IF OrderNo(id) % 2 = 1 THEN "BUY" ELSE "SELL"

\* The books: every order is absent, from block 41 or from block 42.
BalBooks(h) ==
    {[id \in D |-> [side |-> BalSide(id), owner |-> OwnerOf(BalSide(id)),
                    createdHeight |-> c[id]]] :
        D \in SUBSET BalOrders, c \in [BalOrders -> {h - 1, h}]}

\* The store with the locks of the resting orders of bk taken.
BalStore(bk) ==
    LET buys == Cardinality(Buys(bk))
        sells == Cardinality(Sells(bk))
        none == <<Coin("BNB", 0), Coin("XYZ", 0)>>
    IN  [a \in {1, 2, FeeCollector} |->
            IF a = 1
            THEN NamedAccount(<<Coin("BNB", StartBNB - buys * BuyLock), Coin("XYZ", StartXYZ)>>,
                              <<>>, <<Coin("BNB", buys * BuyLock), Coin("XYZ", 0)>>)
            ELSE IF a = 2
            THEN NamedAccount(<<Coin("BNB", StartBNB), Coin("XYZ", StartXYZ - sells * SellLock)>>,
                              <<>>, <<Coin("BNB", 0), Coin("XYZ", sells * SellLock)>>)
            ELSE NamedAccount(none, <<>>, none)]

\* The change list and map of the orders added in this block.
BalChanges(bk, h) ==
    LET new == {id \in DOMAIN bk : bk[id].createdHeight = h}
    IN  RecordChanges([changes |-> <<>>, map |-> EmptyMap], IdList(new),
                      [id \in new |-> "NEW"], bk)

InitBal ==
    /\ height = 42 /\ blockTime = 101 /\ lastBlockTime = 100
    /\ pc = "deliver"
    /\ publicationConfig = Flags(TRUE, TRUE, FALSE)
    /\ IsLive = TRUE
    /\ chanSize = [publish |-> PublicationChannelSize, remove |-> ToRemoveOrderIdChannelSize]
    /\ book \in BalBooks(height)
    /\ nextOrder = 4
    /\ OrderChanges = BalChanges(book, height).changes
    /\ OrderChangesMap = BalChanges(book, height).map
    /\ involved = {book[id].owner : id \in {x \in DOMAIN book : book[x].createdHeight = height}}
    /\ accountStore = BalStore(book)
    /\ calls = <<>>
    /\ matchOut = NoMatchOut /\ emitted = 0 /\ transCh = <<>>
    /\ tradesToPublish = <<>> /\ replicaTrades = <<>>
    /\ icoDone = "none"
    /\ outbox = NoBlock
    /\ ToPublishCh = <<>> /\ ToRemoveOrderIdCh = <<>>
    /\ worker = [pc |-> "recv", block |-> NoBlock, ids |-> <<>>]
    /\ sentLog = <<>> /\ recvLog = <<>> /\ reported = {}
    /\ accountsToPublish = EmptyMap
    /\ bookLevels = NoLevels

EndBlockerAllocate == EndBlockerCollectWith(TRUE)

NextBal == EndBlockerAllocate \/ FeeCollectorSend \/ MatchReturn

SpecBal == InitBal /\ [][NextBal]_vars

\* --------------------------------------------------------------- SpecWide
\* The pipeline with a ToPublishCh that has room for more than one block
\* info: market data and balances on, the publisher live.

InitWide ==
    InitWith([cfg |-> Flags(TRUE, TRUE, FALSE), live |-> TRUE,
              publish |-> PublicationChannelSize + 1, remove |-> 1])

NextWide ==
    \/ BeginBlock
    \/ AddOrder
    \/ CancelOrder
    \/ EndBlockerCollect
    \/ FeeCollectorSend
    \/ MatchReturn
    \/ EndBlockerBreathe
    \/ IcoFinish
    \/ BreatheAwait
    \/ PublishSend
    \/ DrainRemove
    \/ DrainDone
    \/ WorkerRecv
    \/ WorkerReport
    \/ Commit

SpecWide == InitWide /\ [][NextWide]_vars

\* -------------------------------------------------------------- SpecDrain
\* One publishing block taken up at the send of line 379, with a live
\* worker: the order changes of up to MaxDrainIds orders, each new or
\* cancelled, the capacities of the two channels, and possibly an id of an
\* earlier block still in ToRemoveOrderIdCh.

MaxDrainIds == 3

DrainKinds == UNION {[D -> {"NEW", "CANCEL"}] : D \in SUBSET {OrderIds[i] : i \in 1..MaxDrainIds}}

\* The keeper's change list and map for the kinds k.
DrainChanges(k) ==
    RecordChanges([changes |-> <<>>, map |-> EmptyMap], IdList(DOMAIN k), k,
                  [id \in DOMAIN k |-> [owner |-> Buyer]])

StaleId == OrderIds[6]

InitDrain ==
    /\ height = 2 /\ blockTime = 86390 /\ lastBlockTime = 86390
    /\ pc = "send"
    /\ publicationConfig = Flags(TRUE, TRUE, FALSE)
    /\ IsLive = TRUE
    /\ \E c \in {0, PublicationChannelSize}, r \in {1, ToRemoveOrderIdChannelSize} :
          chanSize = [publish |-> c, remove |-> r]
    /\ book = EmptyMap /\ nextOrder = MaxDrainIds
    /\ \E k \in DrainKinds :
          /\ OrderChanges = DrainChanges(k).changes
          /\ OrderChangesMap = DrainChanges(k).map
    /\ involved = {}
    /\ accountStore = TraderStore
    /\ calls = <<"MatchAndAllocateAll">>
    /\ matchOut = NoMatchOut /\ emitted = 0 /\ transCh = <<>>
    /\ tradesToPublish = <<>> /\ replicaTrades = <<>>
    /\ icoDone = "none"
    /\ outbox = CollectPublishInfo(publicationConfig, height, blockTime, tradesToPublish,
                                   OrderChanges, OrderChangesMap, accountStore, involved)
    /\ ToPublishCh = <<>>
    /\ ToRemoveOrderIdCh \in {<<>>, <<StaleId>>}
    /\ worker = [pc |-> "recv", block |-> NoBlock, ids |-> <<>>]
    /\ sentLog = <<1>> /\ recvLog = <<1>> /\ reported = {}
    /\ accountsToPublish = EmptyMap
    /\ bookLevels = NoLevels

NextDrain ==
    \/ PublishSend
    \/ PublishRendezvous
    \/ WorkerRecv
    \/ WorkerReport
    \/ DrainRemove
    \/ DrainDone

\* Both threads run: a step that stays possible is taken, and the select of
\* line 388 does not pass over a ready case for ever.
FairDrain ==
    /\ WF_vars(PublishSend) /\ WF_vars(PublishRendezvous)
    /\ WF_vars(WorkerRecv) /\ WF_vars(WorkerReport)
    /\ WF_vars(DrainRemove) /\ WF_vars(DrainDone)

SpecDrain == InitDrain /\ [][NextDrain]_vars /\ FairDrain

\* ----------------------------------------------------------------- claims

BreatheTaken == calls = <<"ico.EndBlockAsync", "dex.EndBreatheBlock">>
NormalTaken == calls = <<"MatchAndAllocateAll">>
InEndBlocker == pc \in {"match", "ico", "send", "drain", "return"}
DatesDiffer == lastBlockTime \div 86400 # blockTime \div 86400

\* C1: in every EndBlock call the breathe path (the ICO end-block task and
\* EndBreatheBlock, no matching) is taken if and only if height > 1 and the
\* UTC date of the block time differs from that of the previous block time;
\* otherwise, also at height 1 with differing dates, MatchAndAllocateAll runs.
C1_BreatheIffNewDayAfterFirst ==
    InEndBlocker =>
        /\ BreatheTaken <=> (height > 1 /\ DatesDiffer)
        /\ ~BreatheTaken => NormalTaken

C1_Witness == pc = "return" /\ BreatheTaken /\ height > 1 /\ DatesDiffer

Published == outbox # NoBlock

\* C2: when EndBlock returns after a hand-off, every id of terminal kind that
\* the worker reported on ToRemoveOrderIdCh for that block is absent from
\* OrderChangesMap and every id of non-terminal kind is still present.
C2_ReportedIdsRemovedAtReturn ==
    (pc = "return" /\ Published) =>
        /\ \A id \in reported : id \notin DOMAIN OrderChangesMap
        /\ \A id \in DOMAIN outbox.orderChangesMap :
              outbox.orderChangesMap[id].kind \notin TerminalKinds
                  => id \in DOMAIN OrderChangesMap

Heights(ch) == [i \in 1..Len(ch) |-> ch[i].height]

\* EndBlocker stands at the send and the buffer of ToPublishCh has no room.
BlockedAtSend == pc = "send" /\ Len(ToPublishCh) >= chanSize.publish

\* C8: while ToPublishCh is full at the hand-off, EndBlocker stays at the send
\* (no cache is cleared, no drain, no return) until the worker has received
\* an item, and every block info sent is received or still in the channel:
\* none is dropped or overwritten.
C8_Backpressure ==
    /\ [](sentLog = recvLog \o Heights(ToPublishCh))
    /\ [][BlockedAtSend =>
            \/ /\ pc' = "send"
               /\ UNCHANGED <<OrderChanges, OrderChangesMap, involved, sentLog>>
            \/ Len(recvLog') = Len(recvLog) + 1]_vars

C8_Witness == BlockedAtSend /\ Len(recvLog) >= 1 /\ sentLog = recvLog

\* C9: the worker receives the block infos in strictly increasing height
\* order.
C9_HeightOrder ==
    \A i, j \in 1..Len(recvLog) : i < j => recvLog[i] < recvLog[j]

C9_Witness == Len(recvLog) >= 2 /\ recvLog[1] = 1 /\ recvLog[2] = 2

\* The block infos on their way: in ToPublishCh or with the worker.
HeldBlocks == Range(ToPublishCh) \cup (IF worker.block = NoBlock THEN {} ELSE {worker.block})

\* A step leaves the order changes and the map of the block info as built.
KeptAsBuilt ==
    /\ outbox'.orderChanges = outbox.orderChanges
    /\ outbox'.orderChangesMap = outbox.orderChangesMap

C25_AtMostOneInFlight ==
    /\ Len(ToPublishCh) <= 1
    /\ \A i \in 1..Len(ToPublishCh) : ToPublishCh[i].height = height
    /\ pc # "drain" => ToPublishCh = <<>>
    /\ Len(sentLog) - Len(recvLog) \in {0, 1}

\* The block info of the second block waits in the buffer while EndBlocker
\* is in its drain loop.
C25_Witness ==
    /\ pc = "drain"
    /\ Len(ToPublishCh) = 1
    /\ chanSize.publish > 1
    /\ ToPublishCh[1].height = 2
    /\ recvLog = <<1>>

\* The ids whose change is part of the block info of this block.
ChangedNow == {outbox.orderChanges[i].Id : i \in 1..Len(outbox.orderChanges)}

\* C26: an id the worker sent that is still in ToRemoveOrderIdCh when the
\* drain loop of a block exits is deleted in the drain loop of the next
\* publishing block: when EndBlock returns from a second or later publishing
\* block, OrderChangesMap has no entry of terminal kind left from an earlier
\* block, and ToRemoveOrderIdCh holds no id of an earlier block.
C26_LeftoverGoneNextBlock ==
    (pc = "return" /\ Published /\ Len(sentLog) >= 2)
    => /\ \A id \in DOMAIN OrderChangesMap :
             OrderChangesMap[id].kind \in TerminalKinds => id \in ChangedNow
       /\ \A i \in 1..Len(ToRemoveOrderIdCh) : ToRemoveOrderIdCh[i] \in ChangedNow

\* ------------------------------------------------------ claims of SpecJoin

\* The symbols in lexicographic order.
SortedSymbols == <<"ABC_BNB", "XYZ_BNB">>
SymbolRank(sym) == IF sym = SortedSymbols[1] THEN 1 ELSE 2

\* What the publication must say of the trade tr of symbol sym.
Want(sym, tr) ==
    [Symbol |-> sym, Bid |-> tr.BId, Sid |-> tr.SId, Price |-> tr.LastPx,
     Qty |-> tr.LastQty, BuyCumQty |-> tr.BuyCumQty]

\* What a published trade says.
Said(t) ==
    [Symbol |-> t.Symbol, Bid |-> t.Bid, Sid |-> t.Sid, Price |-> t.Price,
     Qty |-> t.Qty, BuyCumQty |-> t.BuyCumQty]

SaidAll(trades) == [i \in 1..Len(trades) |-> Said(trades[i])]

\* The trade has a non-expired Transfer with its (bid, sid) pair.
Carried(tr) ==
    \E k \in 1..Len(matchOut.transfers) :
        /\ ~matchOut.transfers[k].IsExpired
        /\ matchOut.transfers[k].Bid = tr.BId
        /\ matchOut.transfers[k].Sid = tr.SId

\* The wanted entries of symbol sym, in matching order, of the carried trades.
WantedOf(sym) ==
    LET carried == SelectSeq(matchOut.trades[sym], Carried)
    IN  [i \in 1..Len(carried) |-> Want(sym, carried[i])]

RECURSIVE WantedIn(_)
WantedIn(symOrder) ==
    IF symOrder = <<>> THEN <<>>
    ELSE WantedOf(Head(symOrder)) \o WantedIn(Tail(symOrder))

AllTradesCarried ==
    \A sym \in DOMAIN matchOut.trades :
        \A i \in 1..Len(matchOut.trades[sym]) : Carried(matchOut.trades[sym][i])

\* C3: the block info handed off by a second run of EndBlock from the same
\* state and the same block inputs has the same trades list (same elements,
\* same order, same ids) as the first run's.
C3_SameTradesInBothRuns ==
    pc = "send" => replicaTrades = outbox.tradesToPublish

\* C4: a published trades list with two or more symbols goes through the
\* symbols in lexicographic order and, within a symbol, keeps the matching
\* order of LastTrades()[symbol].
C4_SymbolLexOrder ==
    (pc = "send" /\ Cardinality({outbox.tradesToPublish[i].Symbol : i \in 1..Len(outbox.tradesToPublish)}) >= 2)
    => /\ \A i, j \in 1..Len(outbox.tradesToPublish) :
             i < j => SymbolRank(outbox.tradesToPublish[i].Symbol) <= SymbolRank(outbox.tradesToPublish[j].Symbol)
       /\ \A sym \in DOMAIN matchOut.trades :
             SelectSeq(SaidAll(outbox.tradesToPublish), LAMBDA t : t.Symbol = sym) = WantedOf(sym)

\* C5: when every trade of LastTrades() has a non-expired Transfer with its
\* (bid, sid) pair, the trades list has one entry per trade of LastTrades(),
\* each with the trade's symbol, price, quantity and cumulated buy quantity,
\* also when a pair occurs in several trades.
C5_JoinComplete ==
    (pc = "send" /\ AllTradesCarried)
    => /\ Len(outbox.tradesToPublish) = TradeCount(matchOut.trades)
       /\ \E symOrder \in Perms(DOMAIN matchOut.trades) :
             SaidAll(outbox.tradesToPublish) = WantedIn(symOrder)

C5_Witness ==
    /\ pc = "send" /\ AllTradesCarried
    /\ Len(outbox.tradesToPublish) = 2
    /\ outbox.tradesToPublish[1].Bid = outbox.tradesToPublish[2].Bid
    /\ outbox.tradesToPublish[1].Sid = outbox.tradesToPublish[2].Sid
    /\ outbox.tradesToPublish[1].Price # outbox.tradesToPublish[2].Price

\* C21: the trade ids of a published block are pairwise distinct and read
\* "<height>-<idx>" with the block's height and idx = 0, 1, ..., n-1 along
\* the published list; a trade the join skips takes no index.
C21_TradeIdsDense ==
    pc = "send"
    => LET out == outbox.tradesToPublish IN
       /\ \A i \in 1..Len(out) : out[i].Id = ToString(outbox.height) \o "-" \o ToString(i - 1)
       /\ \A i, j \in 1..Len(out) : i # j => out[i].Id # out[j].Id
       /\ {out[i].Id : i \in 1..Len(out)} = {TradeId(height, n) : n \in 0..(Len(out) - 1)}

\* The first trade of a symbol is skipped and the second one published, with
\* index 0.
C21_Witness ==
    /\ pc = "send"
    /\ \E sym \in DOMAIN matchOut.trades :
          /\ Len(matchOut.trades[sym]) = 2
          /\ ~Carried(matchOut.trades[sym][1])
          /\ Carried(matchOut.trades[sym][2])
    /\ Len(outbox.tradesToPublish) = 1
    /\ outbox.tradesToPublish[1].Id = "43-0"

\* ---------------------------------------------------- claims of SpecExpire

\* C19: a trade of LastTrades() without a grouped-trade record (no
\* non-expired Transfer with its pair was drained) is left out of the
\* published trades and nothing else is: the other trades are all there, in
\* matching order and numbered without a gap, the join always comes to its
\* end and the block info of the block is built for the hand-off.
C19_MissingGroupSkipped ==
    /\ (pc = "match" /\ emitted = Len(matchOut.transfers)) => ENABLED MatchReturn
    /\ pc = "send"
       => /\ outbox.height = height
          /\ outbox.tradesToPublish = tradesToPublish
          /\ \E symOrder \in Perms(DOMAIN matchOut.trades) :
                SaidAll(tradesToPublish) = WantedIn(symOrder)
          /\ \A i \in 1..Len(tradesToPublish) : tradesToPublish[i].Id = TradeId(height, i - 1)

\* A block with a trade that is skipped and a trade that is published.
C19_Witness ==
    /\ pc = "send"
    /\ Len(tradesToPublish) = 1
    /\ \E sym \in DOMAIN matchOut.trades : \E i \in 1..Len(matchOut.trades[sym]) :
          ~Carried(matchOut.trades[sym][i])
    /\ TradeCount(matchOut.trades) = 2

\* The expired Transfers with a fee whose order is id, by position.
ExpiredOn(id) ==
    {k \in 1..Len(matchOut.transfers) :
        LET t == matchOut.transfers[k] IN
        /\ t.IsExpired /\ t.Tokens # <<>>
        /\ id = (IF t.IsBuyer THEN t.Bid ELSE t.Sid)}

LastOf(K) == CHOOSE k \in K : \A j \in K : j <= k

\* The fills of the pair (bid, sid) that carry a fee of the given side.
FeeFills(bid, sid, isBuyer) ==
    {k \in 1..Len(matchOut.transfers) :
        LET t == matchOut.transfers[k] IN
        /\ ~t.IsExpired /\ t.Tokens # <<>>
        /\ t.Bid = bid /\ t.Sid = sid /\ t.IsBuyer = isBuyer}

FeeOfFills(K) == IF K = {} THEN 0 ELSE matchOut.transfers[LastOf(K)].Tokens[1].Amount

\* C20: after the drain, the OrderChangesMap entry of an order has the fee
\* asset and amount of its (last) expired Transfer with a fee, the order
\* being Bid of a buyer-side Transfer and Sid of a seller-side one; every
\* other entry, and every other field, is as before, so a fee-free expired
\* Transfer changes nothing; and an expired Transfer gives no publication
\* trade and no fee on one.
C20_ExpiredFeeOnOneEntry ==
    pc = "send"
    => /\ DOMAIN OrderChangesMap = DOMAIN JoinMap
       /\ \A id \in DOMAIN JoinMap :
             IF ExpiredOn(id) = {} THEN OrderChangesMap[id] = JoinMap[id]
             ELSE LET t == matchOut.transfers[LastOf(ExpiredOn(id))] IN
                  OrderChangesMap[id] = [JoinMap[id] EXCEPT !.FeeAsset = t.Tokens[1].Denom,
                                                            !.Fee = t.Tokens[1].Amount]
       /\ \A i \in 1..Len(tradesToPublish) :
             LET p == tradesToPublish[i] IN
             /\ \E k \in 1..Len(matchOut.transfers) :
                   /\ ~matchOut.transfers[k].IsExpired
                   /\ matchOut.transfers[k].Bid = p.Bid /\ matchOut.transfers[k].Sid = p.Sid
             /\ p.Bfee = FeeOfFills(FeeFills(p.Bid, p.Sid, TRUE))
             /\ p.Sfee = FeeOfFills(FeeFills(p.Bid, p.Sid, FALSE))

\* The sell order o4 expires with a fee, naming the pair of a trade of the
\* block, and the buy order o1 expires fee-free.
C20_Witness ==
    /\ pc = "send"
    /\ matchOut.transfers = <<JoinExpiry("o3", "o4", FALSE, FALSE), JoinExpiry("o1", "o2", TRUE, TRUE)>>
    /\ TradeCount(matchOut.trades) = 2
    /\ tradesToPublish = <<>>
    /\ OrderChangesMap["o4"].Fee = iocExpireFee /\ OrderChangesMap["o4"].FeeAsset = "BNB"
    /\ OrderChangesMap["o3"].Fee = 0 /\ OrderChangesMap["o1"].Fee = 0

\* ------------------------------------------------------ claims of SpecFree

AssetOfFills(K) == IF K = {} THEN "" ELSE matchOut.transfers[LastOf(K)].Tokens[1].Denom

\* C22: a non-expired fee-free Transfer makes the grouped record of its pair
\* (so the trades of the pair are published) and writes no fee field: a
\* published trade has, on each side, the fee and the asset of the last
\* Transfer of that side that carries a fee, and 0 and "" when there is
\* none.
C22_FeeFreeGroupsOnly ==
    pc = "send"
    => /\ \E symOrder \in Perms(DOMAIN matchOut.trades) :
             SaidAll(outbox.tradesToPublish) = WantedIn(symOrder)
       /\ \A i \in 1..Len(outbox.tradesToPublish) :
             LET p == outbox.tradesToPublish[i] IN
             /\ p.Bfee = FeeOfFills(FeeFills(p.Bid, p.Sid, TRUE))
             /\ p.BfeeAsset = AssetOfFills(FeeFills(p.Bid, p.Sid, TRUE))
             /\ p.Sfee = FeeOfFills(FeeFills(p.Bid, p.Sid, FALSE))
             /\ p.SfeeAsset = AssetOfFills(FeeFills(p.Bid, p.Sid, FALSE))

\* Both Transfers of the only trade are fee-free.
C22_Witness ==
    /\ pc = "send"
    /\ matchOut.transfers = <<JoinFill("o1", "o2", TRUE, TRUE), JoinFill("o1", "o2", FALSE, TRUE)>>
    /\ Len(outbox.tradesToPublish) = 1
    /\ outbox.tradesToPublish[1].Bfee = 0 /\ outbox.tradesToPublish[1].Sfee = 0
    /\ outbox.tradesToPublish[1].BfeeAsset = "" /\ outbox.tradesToPublish[1].SfeeAsset = ""

\* ------------------------------------------------------- claims of SpecAcc

TxRelated == involved
TradeRelated == {OrderChangesMap[id].owner : id \in DOMAIN OrderChangesMap}

\* The address has an account of the expected variant.
ValidAccount(a) ==
    \E i \in DOMAIN accountStore : Bech32Names[i] = a /\ accountStore[i].variant = "named"

\* C6: the keys of the snapshot are addresses of txRelated or tradeRelated;
\* every address of the two sets with a valid account is a key, and an
\* address without one is left out while the others stay.
C6_SnapshotScope ==
    pc = "collected"
    => /\ DOMAIN accountsToPublish \subseteq TxRelated \cup TradeRelated
       /\ \A a \in TxRelated \cup TradeRelated :
             ValidAccount(a) <=> a \in DOMAIN accountsToPublish
       /\ \A a \in DOMAIN accountsToPublish : accountsToPublish[a].Address = a

C6_Witness ==
    /\ pc = "collected"
    /\ \E a \in TxRelated \cap TradeRelated : a \in DOMAIN accountsToPublish
    /\ \E a \in TradeRelated \ TxRelated : a \in DOMAIN accountsToPublish
    /\ \E a \in TxRelated \cup TradeRelated : a \notin DOMAIN accountsToPublish

AmountIn(coins, denom) ==
    IF \E i \in 1..Len(coins) : coins[i].Denom = denom
    THEN coins[CHOOSE i \in 1..Len(coins) : coins[i].Denom = denom].Amount
    ELSE 0

DenomsOf(acc) ==
    {acc.Coins[i].Denom : i \in 1..Len(acc.Coins)}
    \cup {acc.Frozen[i].Denom : i \in 1..Len(acc.Frozen)}
    \cup {acc.Locked[i].Denom : i \in 1..Len(acc.Locked)}

\* C7: the assets of an emitted account have, for every denomination of its
\* free, frozen or locked coins, one AssetBalance with the three amounts of
\* the account (zero where the denomination is absent).
C7_AssetsCarryAllBalances ==
    pc = "collected"
    => \A a \in DOMAIN accountsToPublish :
          LET acc == accountStore[AccAddressFromBech32(a)]
              assets == accountsToPublish[a].Assets
          IN  \A d \in DenomsOf(acc) :
                 /\ Cardinality({i \in 1..Len(assets) : assets[i].Asset = d}) = 1
                 /\ \A i \in 1..Len(assets) :
                       assets[i].Asset = d
                       => /\ assets[i].Free = AmountIn(acc.Coins, d)
                          /\ assets[i].Frozen = AmountIn(acc.Frozen, d)
                          /\ assets[i].Locked = AmountIn(acc.Locked, d)

\* ------------------------------------------------------- claims of SpecFee

\* C10: whatever the number of Transfers of the block, a send on transCh by
\* MatchAndAllocateAll finds room in the channel.
C10_FeeSendNeverBlocks ==
    (pc = "match" /\ emitted < Len(matchOut.transfers))
    => Len(transCh) < FeeCollectionChannelSize

\* ---------------------------------------------- claims of Spec, continued

\* The ids whose entry leaves OrderChangesMap in the step.
Deleted == {id \in DOMAIN OrderChangesMap : id \notin DOMAIN OrderChangesMap'}

\* The block info of this height was sent on ToPublishCh.
HandedOff ==
    /\ outbox # NoBlock
    /\ sentLog # <<>>
    /\ sentLog[Len(sentLog)] = outbox.height
    /\ outbox.height = height

\* C11: an entry leaves OrderChangesMap only in the drain loop, when a block
\* info whose snapshot holds the entry has been sent on ToPublishCh and the
\* id is the one the worker reported at the head of ToRemoveOrderIdCh.
C11_DeleteOnlyAfterHandoff ==
    [][\A id \in Deleted :
          /\ pc = "drain"
          /\ HandedOff
          /\ id \in DOMAIN outbox.orderChangesMap
          /\ ToRemoveOrderIdCh # <<>>
          /\ id = Head(ToRemoveOrderIdCh)]_vars

\* An entry has been deleted while another entry of terminal kind stays.
C11_Witness ==
    /\ pc = "drain"
    /\ \E id \in DOMAIN outbox.orderChangesMap : id \notin DOMAIN OrderChangesMap
    /\ \E id \in DOMAIN OrderChangesMap : OrderChangesMap[id].kind \in TerminalKinds

\* A per-block cache is emptied in the step.
CacheCleared ==
    \/ OrderChanges # <<>> /\ OrderChanges' = <<>>
    \/ involved # {} /\ involved' = {}

C13_DeadSinkNoPublish ==
    ~IsLive
    => /\ pc \notin {"match", "send", "drain"}
       /\ transCh = <<>> /\ emitted = 0 /\ tradesToPublish = <<>>
       /\ outbox = NoBlock
       /\ sentLog = <<>> /\ ToPublishCh = <<>> /\ ToRemoveOrderIdCh = <<>>
       /\ pc = "return" => (NormalTaken \/ BreatheTaken)

\* A breathe block and, before it, normal blocks have returned with the sink
\* dead and the market-data flag on.
C13_Witness ==
    /\ ~IsLive /\ publicationConfig.PublishMarketData
    /\ pc = "return" /\ height >= 2 /\ BreatheTaken

\* C14: with the sink dead, OrderChangesMap holds no entry of terminal kind
\* when EndBlocker returns.
C14_DeadSinkMapPruned ==
    (~IsLive /\ pc = "return")
    => \A id \in DOMAIN OrderChangesMap : OrderChangesMap[id].kind \notin TerminalKinds

\* EndBlocker runs on a breathe block.
InBreatheBlock == InEndBlocker /\ height > 1 /\ DatesDiffer

\* C15: in a breathe block MatchAndAllocateAll is not called and no trade is
\* published; ico.EndBlockAsync is called before dex.EndBreatheBlock; while
\* the ICO signal has not been received EndBlocker stands at `<-icoDone` with
\* no block info built or sent for this height.
C15_BreatheAwaitsIco ==
    InBreatheBlock
    => /\ calls = <<"ico.EndBlockAsync", "dex.EndBreatheBlock">>
       /\ matchOut = NoMatchOut /\ transCh = <<>> /\ tradesToPublish = <<>>
       /\ outbox.tradesToPublish = <<>>
       /\ icoDone \in {"running", "done"} <=> pc = "ico"
       /\ pc = "ico" => (outbox = NoBlock /\ \A i \in 1..Len(sentLog) : sentLog[i] < height)

\* A breathe block that expired an order has been handed off.
C15_Witness ==
    /\ InBreatheBlock /\ pc = "drain"
    /\ \E i \in 1..Len(outbox.orderChanges) : outbox.orderChanges[i].kind = "EXPIRED"

\* The EndBlocker calls whose send on ToPublishCh has completed.
BlocksSent == IF pc \in {"drain", "return", "idle"} THEN height ELSE height - 1

\* C16: while ShouldPublish() is true, the block infos sent are one per
\* EndBlocker call, in the order of the heights 1, 2, ...
C16_OneHandoffPerBlock ==
    ShouldPublish(publicationConfig, IsLive)
    => sentLog = [i \in 1..BlocksSent |-> i]

\* The second block, without order change or trade, has been handed off.
C16_Witness ==
    /\ ShouldPublish(publicationConfig, IsLive)
    /\ pc = "return" /\ height = 2
    /\ outbox.height = 2
    /\ outbox.orderChanges = <<>> /\ outbox.tradesToPublish = <<>>
    /\ sentLog = <<1, 2>>

\* ------------------------------------------------------ claims of SpecBook

\* The quantity of price p in the top of the levels lv, 0 when p is not there.
TopQty(lv, side, p) == IF p \in Range(TopPrices(lv, side, 20)) THEN lv[p] ELSE 0

\* The levels of a side whose quantity differs between the two tops, each
\* with its new quantity.
DifferingLevels(sym, side) ==
    LET pre == bookLevels.pre[sym][side]
        post == bookLevels.post[sym][side]
    IN  {[Price |-> p, Qty |-> TopQty(post, side, p)] :
            p \in {q \in DOMAIN pre \cup DOMAIN post :
                      TopQty(pre, side, q) # TopQty(post, side, q)}}

\* The list holds the elements of S, each once.
ListsExactly(list, S) == Range(list) = S /\ Len(list) = Cardinality(S)

RECURSIVE Total(_, _, _)
Total(store, A, denom) ==
    IF A = {} THEN 0
    ELSE LET a == CHOOSE x \in A : TRUE IN
         Held(store[a].Coins, denom) + Held(store[a].Frozen, denom)
         + Held(store[a].Locked, denom) + Total(store, A \ {a}, denom)

StartOf(denom) == IF denom = "BNB" THEN StartBNB ELSE StartXYZ

\* The accounts the block has touched: the owners of the matched and the
\* expired orders.
Affected == {AccAddressFromBech32(OrderChangesMap[id].owner) : id \in DOMAIN matchOut.kinds}

\* The fees the Transfers of the block carry, in one asset.
FeesCarried(denom) ==
    SeqSum([i \in 1..Len(matchOut.transfers) |-> Held(matchOut.transfers[i].Tokens, denom)])

C23_EndBlockReturns == (pc = "send") ~> (pc = "return")

\* EndBlock has returned from a block with more removable ids than the
\* channel holds, all of them reported.
C23_Witness ==
    /\ pc = "return"
    /\ Len(IdsToRemove(outbox)) > chanSize.remove
    /\ Range(IdsToRemove(outbox)) \subseteq reported

====
